---- MODULE Spec2Model ----
(***************************************************************************)
(* The semantic check of a tree-sitter-graph file (src/src/checker.rs).    *)
(*                                                                         *)
(* File::check walks the stanzas in order, Stanza::check walks the         *)
(* statements of a stanza in order under a fresh variable environment, and *)
(* every statement handler checks its expressions and then declares,       *)
(* assigns or opens child scopes.  The recursion of the compound           *)
(* statements (scan, if, for-in) is the stack `blocks`/`locals`: entering  *)
(* an arm or a loop body pushes a child scope, returning from it pops it.  *)
(* The statements of the file are the inputs: every action draws the       *)
(* statement it checks from a bounded set of syntax trees.                 *)
(***************************************************************************)
EXTENDS Integers, Sequences, FiniteSets

\* ------------------------------------------------------------------------
\* Bounds of the model

NumStanzas == 2     \* stanzas of the file
MaxDepth == 2       \* nested blocks open below a stanza's root scope
MaxNodes == 3       \* statements and arms checked in one file
MaxElems == 1       \* elements of a list/set, parameters, values, attributes
MaxCaptures == 2    \* captures listed by one condition

\* ------------------------------------------------------------------------
\* Names, quantifiers, locations, errors

VarNames == {"x", "n"}
CaptureNames == {"child", "x"}

\* tree_sitter::CaptureQuantifier; Zero is what the file query reports for a
\* capture that the stanza's pattern does not contain.
Zero == "Zero"
One == "One"
ZeroOrOne == "ZeroOrOne"
ZeroOrMore == "ZeroOrMore"
OneOrMore == "OneOrMore"
CaptureQuantifier == {Zero, ZeroOrOne, ZeroOrMore, One, OneOrMore}

Stanzas == 0 .. (NumStanzas - 1)

\* A location names a syntax node: the number of the statement (or arm) in
\* the file's textual order and the path to the node inside it.
Location(stmt, path) == [stmt |-> stmt, path |-> path]
NoLocation == Location(0, <<>>)

NoError == [kind |-> "Ok", name |-> "", location |-> NoLocation, cause |-> ""]
ExpectedListValue(loc) ==
    [kind |-> "ExpectedListValue", name |-> "", location |-> loc, cause |-> ""]
ExpectedOptionalValue(loc) ==
    [kind |-> "ExpectedOptionalValue", name |-> "", location |-> loc, cause |-> ""]
UndefinedSyntaxCapture(name, loc) ==
    [kind |-> "UndefinedSyntaxCapture", name |-> name, location |-> loc, cause |-> ""]
VariableError(cause, name) ==
    [kind |-> "Variable", name |-> name, location |-> NoLocation, cause |-> cause]

\* ------------------------------------------------------------------------
\* Syntax trees (crate::ast), as far as the checker reads them

NoElems == <<>>
Expr(kind, name, elems) == [kind |-> kind, name |-> name, elems |-> elems]
NoExpr == Expr("-", "", NoElems)
IntegerConstant == Expr("IntegerConstant", "", NoElems)
RegexCapture == Expr("RegexCapture", "", NoElems)
Capture(name) == Expr("Capture", name, NoElems)
Unscoped(name) == Expr("UnscopedVariable", name, NoElems)
Scoped(scope, name) == Expr("ScopedVariable", name, <<scope>>)

SeqUpTo(S, k) == UNION {[1 .. i -> S] : i \in 0 .. k}

Captures == {Capture(c) : c \in CaptureNames}
UnscopedVariables == {Unscoped(v) : v \in VarNames}
ScopedVariables == {Scoped(Capture("child"), "x")}
Atoms == {IntegerConstant} \cup Captures \cup UnscopedVariables
Elems == {Capture("child"), Unscoped("x")}
Composites ==
    {Expr(k, "", es) : k \in {"List", "Set", "Call"},
                       es \in SeqUpTo(Elems, MaxElems) \ {<<>>}}
        \cup {Expr("Set", "", <<>>)}

\* The expressions that are declared, assigned and printed.
Values == Atoms \cup {Expr("List", "", <<Capture("child")>>)}
Printed == Composites \cup ScopedVariables
ScanExprs == {RegexCapture, Capture("child"), Unscoped("x")}

\* The (variable, value) pairs of the declarations and assignments.
Targets ==
    (UnscopedVariables \X Values)
        \cup (ScopedVariables \X {IntegerConstant, Capture("x")})

Condition(form, captures) == [form |-> form, captures |-> captures]
Conditions ==
    {Condition("None", cs) : cs \in SeqUpTo(CaptureNames, MaxCaptures) \ {<<>>}}
        \cup {Condition("Some", <<c>>) : c \in CaptureNames}

\* A statement (for an if, one arm of it): the fields its handler reads.
Stmt(kind, variable, value, source, sink, values, conditions) ==
    [kind |-> kind, variable |-> variable, value |-> value, source |-> source,
     sink |-> sink, values |-> values, conditions |-> conditions]
NoStmt == Stmt("-", NoExpr, NoExpr, NoExpr, NoExpr, <<>>, <<>>)

\* The compiled file queries of the files checked: the first stanza's pattern
\* gives its captures any quantifiers, and every later stanza's pattern
\* exchanges the quantifiers of the two captures of the stanza before it.
Exchange(t) == [c \in CaptureNames |-> IF c = "child" THEN t["x"] ELSE t["child"]]
Queries ==
    {q \in [Stanzas -> [CaptureNames -> CaptureQuantifier]] :
        \A i \in Stanzas \ {0} : q[i] = Exchange(q[i - 1])}

\* ------------------------------------------------------------------------
\* State

VARIABLES
    file_query,     \* file_query.capture_quantifiers(stanza)[capture]
    stanza_index,   \* the stanza File::check is at
    full_match,     \* stanzas whose full_match_file_capture_index is set
    locals,         \* the scope chain, innermost last (CheckContext.locals)
    blocks,         \* per open scope: the statement that opened it
    entry,          \* per open scope: the enclosing scope as it was on entry
    pc,             \* where the walk is: file, stmts, scan, if, done
    error,          \* the CheckError that File::check returns, or NoError
    nodes,          \* statements and arms checked so far
    stmt,           \* the statement or arm checked by the last step
    annotated       \* the captures the last step resolved, in order

vars == <<file_query, stanza_index, full_match, locals, blocks, entry, pc, error,
          nodes, stmt, annotated>>

\* ------------------------------------------------------------------------
\* The variable environment (crate::variables::VariableMap)

Binding(quantifier, mutable) ==
    [declared |-> TRUE, quantifier |-> quantifier, mutable |-> mutable]
Undeclared == [declared |-> FALSE, quantifier |-> "", mutable |-> FALSE]

\* VariableMap::new and VariableMap::new_child: a scope that declares nothing;
\* the chain below it is the parent.
VariableMapNew == [v \in VarNames |-> Undeclared]
VariableMapNewChild(ls) == Append(ls, VariableMapNew)

\* The innermost scope of the chain ls that declares name, 0 when none does.
Lookup(ls, name) ==
    LET hits == {i \in 1 .. Len(ls) : ls[i][name].declared}
    IN  IF hits = {} THEN 0 ELSE CHOOSE i \in hits : \A j \in hits : j <= i

\* add: only the innermost scope is consulted and changed.
VariableMapAdd(ls, name, value, mutable) ==
    IF ls[Len(ls)][name].declared
    THEN [cause |-> "VariableAlreadyDefined", locals |-> ls]
    ELSE [cause |-> "",
          locals |-> [ls EXCEPT ![Len(ls)][name] = Binding(value, mutable)]]

\* set: the nearest declaring scope is changed, when its binding is mutable.
VariableMapSet(ls, name, value) ==
    LET i == Lookup(ls, name)
    IN  IF i = 0 THEN [cause |-> "UndefinedVariable", locals |-> ls]
        ELSE IF ~ls[i][name].mutable
        THEN [cause |-> "CannotAssignImmutableVariable", locals |-> ls]
        ELSE [cause |-> "", locals |-> [ls EXCEPT ![i][name].quantifier = value]]

\* get: the value of the nearest binding, or none.
VariableMapGet(ls, name) ==
    LET i == Lookup(ls, name)
    IN  IF i = 0 THEN [found |-> FALSE, quantifier |-> ""]
        ELSE [found |-> TRUE, quantifier |-> ls[i][name].quantifier]

\* ------------------------------------------------------------------------
\* The compiled queries

\* file_query.capture_index_for_name(name) is Some: some stanza's pattern
\* contains the capture.
FileQueryDefines(name) == \E s \in Stanzas : file_query[s][name] # Zero

\* Mutant: the name is looked up in the file query, not in the stanza's own.
StanzaQueryDefines_InFile(stanza, name) == FileQueryDefines(name)

\* stanza_query.capture_index_for_name(name) is Some: the stanza's own
\* pattern contains the capture.
StanzaQueryDefines(stanza, name) == file_query[stanza][name] # Zero

\* ------------------------------------------------------------------------
\* Expressions

\* CheckContext: the scope chain and the stanza being checked.
CheckContext(ls, stanza) == [locals |-> ls, stanza_index |-> stanza]

\* Result<ExpressionResult, CheckError>, with the captures annotated on the
\* way (the annotation of a capture node survives a later failure).
Result(err, quantifier, captures) ==
    [error |-> err, quantifier |-> quantifier, captures |-> captures]
Annotation(name, loc, quantifier) ==
    [name |-> name, location |-> loc, quantifier |-> quantifier]

Child(loc, i) == Location(loc.stmt, Append(loc.path, i))

CaptureCheck(name, ctx, loc) ==
    IF ~StanzaQueryDefines(ctx.stanza_index, name)
    THEN Result(UndefinedSyntaxCapture(name, loc), "", <<>>)
    ELSE LET quantifier == file_query[ctx.stanza_index][name]
         IN  Result(NoError, quantifier, <<Annotation(name, loc, quantifier)>>)

\* Mutant: a name that no scope binds is an error.
UnscopedGetCheck_Strict(name, ctx) ==
    LET value == VariableMapGet(ctx.locals, name)
    IN  IF value.found THEN Result(NoError, value.quantifier, <<>>)
        ELSE Result(VariableError("UndefinedVariable", name), "", <<>>)

UnscopedGetCheck(name, ctx) ==
    LET value == VariableMapGet(ctx.locals, name)
    IN  Result(NoError, IF value.found THEN value.quantifier ELSE One, <<>>)

RECURSIVE ExpressionCheck(_, _, _)
RECURSIVE ElementsCheck(_, _, _, _)

\* `for element in &mut elements { element.check(ctx)?; }` from element i on.
ElementsCheck(elems, ctx, loc, i) ==
    IF i > Len(elems) THEN Result(NoError, One, <<>>)
    ELSE LET first == ExpressionCheck(elems[i], ctx, Child(loc, i))
         IN  IF first.error # NoError THEN first
             ELSE LET rest == ElementsCheck(elems, ctx, loc, i + 1)
                  IN  Result(rest.error, rest.quantifier,
                             first.captures \o rest.captures)

ExpressionCheck(e, ctx, loc) ==
    CASE e.kind \in {"FalseLiteral", "NullLiteral", "TrueLiteral"} ->
             Result(NoError, One, <<>>)
      [] e.kind \in {"IntegerConstant", "StringConstant", "RegexCapture"} ->
             Result(NoError, One, <<>>)
      [] e.kind \in {"List", "Set"} ->
             LET r == ElementsCheck(e.elems, ctx, loc, 1)
             IN  Result(r.error, IF r.error = NoError THEN ZeroOrMore ELSE "",
                        r.captures)
      [] e.kind = "Call" ->
             LET r == ElementsCheck(e.elems, ctx, loc, 1)
             IN  Result(r.error, IF r.error = NoError THEN One ELSE "", r.captures)
      [] e.kind = "Capture" -> CaptureCheck(e.name, ctx, loc)
      [] e.kind = "UnscopedVariable" -> UnscopedGetCheck(e.name, ctx)
      [] e.kind = "ScopedVariable" ->
             LET r == ExpressionCheck(e.elems[1], ctx, Child(loc, 1))
             IN  Result(r.error, IF r.error = NoError THEN One ELSE "", r.captures)

\* ------------------------------------------------------------------------
\* Variable bindings: the outcome of a binding is the error (or NoError), the
\* scope chain it leaves and the captures it annotated.

Bound(err, ls, captures) == [error |-> err, locals |-> ls, captures |-> captures]

\* Mutant: the error of add is dropped.
UnscopedAddCheck_Lenient(name, ctx, value, mutable) ==
    Bound(NoError, VariableMapAdd(ctx.locals, name, value.quantifier, mutable).locals,
          <<>>)

UnscopedAddCheck(name, ctx, value, mutable) ==
    LET r == VariableMapAdd(ctx.locals, name, value.quantifier, mutable)
    IN  IF r.cause # "" THEN Bound(VariableError(r.cause, name), ctx.locals, <<>>)
        ELSE Bound(NoError, r.locals, <<>>)

UnscopedSetCheck(name, ctx, value) ==
    LET r == VariableMapSet(ctx.locals, name, value.quantifier)
    IN  IF r.cause # "" THEN Bound(VariableError(r.cause, name), ctx.locals, <<>>)
        ELSE Bound(NoError, r.locals, <<>>)

ScopedCheck(v, ctx, loc) ==
    LET r == ExpressionCheck(v.elems[1], ctx, Child(loc, 1))
    IN  Bound(r.error, ctx.locals, r.captures)

VariableAddCheck(v, ctx, value, mutable, loc) ==
    IF v.kind = "UnscopedVariable"
    THEN UnscopedAddCheck(v.name, ctx, value, mutable)
    ELSE ScopedCheck(v, ctx, loc)

VariableSetCheck(v, ctx, value, loc) ==
    IF v.kind = "UnscopedVariable"
    THEN UnscopedSetCheck(v.name, ctx, value)
    ELSE ScopedCheck(v, ctx, loc)

\* ------------------------------------------------------------------------
\* Statement handlers: what one handler does to the scope chain, the error
\* it returns and the captures it annotated on the way.

\* Mutant: the variable is bound before the value is checked.
DeclareImmutableCheck_BindFirst(s, ctx, loc) ==
    LET b == VariableAddCheck(s.variable, ctx, Result(NoError, One, <<>>), FALSE,
                              Child(loc, 1))
    IN  IF b.error # NoError THEN b
        ELSE LET value == ExpressionCheck(s.value, ctx, Child(loc, 2))
             IN  Bound(value.error, b.locals, b.captures \o value.captures)

DeclareImmutableCheck(s, ctx, loc) ==
    LET value == ExpressionCheck(s.value, ctx, Child(loc, 2))
    IN  IF value.error # NoError
        THEN Bound(value.error, ctx.locals, value.captures)
        ELSE LET b == VariableAddCheck(s.variable, ctx, value, FALSE, Child(loc, 1))
             IN  Bound(b.error, b.locals, value.captures \o b.captures)

\* Mutant: the variable is bound as a single value, whatever the value is.
DeclareMutableCheck_One(s, ctx, loc) ==
    LET value == ExpressionCheck(s.value, ctx, Child(loc, 2))
    IN  IF value.error # NoError
        THEN Bound(value.error, ctx.locals, value.captures)
        ELSE LET b == VariableAddCheck(s.variable, ctx, Result(NoError, One, <<>>),
                                       TRUE, Child(loc, 1))
             IN  Bound(b.error, b.locals, value.captures \o b.captures)

DeclareMutableCheck(s, ctx, loc) ==
    LET value == ExpressionCheck(s.value, ctx, Child(loc, 2))
    IN  IF value.error # NoError
        THEN Bound(value.error, ctx.locals, value.captures)
        ELSE LET b == VariableAddCheck(s.variable, ctx, value, TRUE, Child(loc, 1))
             IN  Bound(b.error, b.locals, value.captures \o b.captures)

\* Mutant: the assignment keeps the variable a single value.
AssignCheck_One(s, ctx, loc) ==
    LET value == ExpressionCheck(s.value, ctx, Child(loc, 2))
    IN  IF value.error # NoError
        THEN Bound(value.error, ctx.locals, value.captures)
        ELSE LET b == VariableSetCheck(s.variable, ctx, Result(NoError, One, <<>>),
                                       Child(loc, 1))
             IN  Bound(b.error, b.locals, value.captures \o b.captures)

AssignCheck(s, ctx, loc) ==
    LET value == ExpressionCheck(s.value, ctx, Child(loc, 2))
    IN  IF value.error # NoError
        THEN Bound(value.error, ctx.locals, value.captures)
        ELSE LET b == VariableSetCheck(s.variable, ctx, value, Child(loc, 1))
             IN  Bound(b.error, b.locals, value.captures \o b.captures)

CreateGraphNodeCheck(s, ctx, loc) ==
    VariableAddCheck(s.variable, ctx, Result(NoError, One, <<>>), FALSE, Child(loc, 1))

\* The expressions of a statement, one after the other, stopping at the
\* first that fails; none of them binds anything.
ExpressionsCheck(elems, ctx, loc) ==
    LET r == ElementsCheck(elems, ctx, loc, 1)
    IN  Bound(r.error, ctx.locals, r.captures)

AddGraphNodeAttributeCheck(s, ctx, loc) ==
    ExpressionsCheck(<<s.source>> \o s.values, ctx, loc)

CreateEdgeCheck(s, ctx, loc) ==
    ExpressionsCheck(<<s.source, s.sink>>, ctx, loc)

AddEdgeAttributeCheck(s, ctx, loc) ==
    ExpressionsCheck(<<s.source, s.sink>> \o s.values, ctx, loc)

PrintCheck(s, ctx, loc) ==
    ExpressionsCheck(s.values, ctx, loc)

\* Scan::check up to its loop over the arms: the scanned value.
ScanValueCheck(s, ctx, loc) ==
    ExpressionsCheck(<<s.value>>, ctx, loc)

\* Mutant: a capture that may be absent counts as optional.
IsOptional_MayBeAbsent(quantifier) == quantifier = ZeroOrOne \/ quantifier = ZeroOrMore

\* `result.quantifier != ZeroOrOne` fails
IsOptional(quantifier) == quantifier = ZeroOrOne

\* Condition::check: the captures of one condition from capture i on.
RECURSIVE ConditionCheck(_, _, _, _)
ConditionCheck(captures, ctx, loc, i) ==
    IF i > Len(captures) THEN Result(NoError, "", <<>>)
    ELSE LET result == CaptureCheck(captures[i], ctx, Child(loc, i))
         IN  IF result.error # NoError THEN result
             ELSE IF ~IsOptional(result.quantifier)
             THEN Result(ExpectedOptionalValue(Child(loc, i)), "", result.captures)
             ELSE LET rest == ConditionCheck(captures, ctx, loc, i + 1)
                  IN  Result(rest.error, "", result.captures \o rest.captures)

\* `for condition in &mut arm.conditions { condition.check(ctx)?; }`
RECURSIVE ConditionsCheck(_, _, _, _)
ConditionsCheck(conditions, ctx, loc, k) ==
    IF k > Len(conditions) THEN Result(NoError, "", <<>>)
    ELSE LET first == ConditionCheck(conditions[k].captures, ctx, Child(loc, k), 1)
         IN  IF first.error # NoError THEN first
             ELSE LET rest == ConditionsCheck(conditions, ctx, loc, k + 1)
                  IN  Result(rest.error, "", first.captures \o rest.captures)

\* Mutant: the arm's scope starts as a copy of the enclosing scope.
IfArmCheck_Copy(s, ctx, loc) ==
    LET guards == ConditionsCheck(s.conditions, ctx, loc, 1)
    IN  IF guards.error # NoError
        THEN Bound(guards.error, ctx.locals, guards.captures)
        ELSE Bound(NoError, Append(ctx.locals, ctx.locals[Len(ctx.locals)]),
                   guards.captures)

\* One arm of If::check up to the arm's statements: the guards under the
\* enclosing scope, then the arm's child scope.
IfArmCheck(s, ctx, loc) ==
    LET guards == ConditionsCheck(s.conditions, ctx, loc, 1)
    IN  IF guards.error # NoError
        THEN Bound(guards.error, ctx.locals, guards.captures)
        ELSE Bound(NoError, VariableMapNewChild(ctx.locals), guards.captures)

\* Mutant: every quantifier but One is taken for a list.
ForInAccepts_NotOne(quantifier) == quantifier # One

\* `capture.quantifier != ZeroOrMore && capture.quantifier != OneOrMore` fails
ForInAccepts(quantifier) == quantifier = ZeroOrMore \/ quantifier = OneOrMore

\* ForIn::check up to the loop's statements.
ForInCheck(s, ctx, loc) ==
    LET capture == CaptureCheck(s.value.name, ctx, Child(loc, 2))
    IN  IF capture.error # NoError
        THEN Bound(capture.error, ctx.locals, capture.captures)
        ELSE IF ~ForInAccepts(capture.quantifier)
        THEN Bound(ExpectedListValue(loc), ctx.locals, capture.captures)
        ELSE LET loop_ctx == CheckContext(VariableMapNewChild(ctx.locals),
                                          ctx.stanza_index)
                 b == UnscopedAddCheck(s.variable.name, loop_ctx, capture, FALSE)
             IN  Bound(b.error, b.locals, capture.captures)

\* ------------------------------------------------------------------------
\* The walk

Init ==
    /\ file_query \in Queries
    /\ stanza_index = 0
    /\ full_match = {}
    /\ locals = <<>>
    /\ blocks = <<>>
    /\ entry = <<>>
    /\ pc = "file"
    /\ error = NoError
    /\ nodes = 0
    /\ stmt = NoStmt
    /\ annotated = <<>>

Ctx == CheckContext(locals, stanza_index)
Here == Location(nodes + 1, <<>>)
Depth == Len(locals) - 1

\* A handler may start: the walk is at a statement, nothing has failed.
AtStatement == pc = "stmts" /\ error = NoError /\ nodes < MaxNodes

\* The handler of statement s returned r: `?` ends the whole check on an
\* error, otherwise the walk goes on after s in the same block.
Returned(s, r) ==
    /\ stmt' = s
    /\ nodes' = nodes + 1
    /\ annotated' = r.captures
    /\ error' = r.error
    /\ locals' = r.locals
    /\ pc' = IF r.error = NoError THEN pc ELSE "done"
    /\ UNCHANGED <<file_query, stanza_index, full_match, blocks, entry>>

\* The handler of s opened a child scope (r.locals) or failed.
Entered(s, r, kind) ==
    /\ stmt' = s
    /\ nodes' = nodes + 1
    /\ annotated' = r.captures
    /\ error' = r.error
    /\ locals' = r.locals
    /\ IF r.error = NoError
       THEN /\ pc' = "stmts"
            /\ blocks' = Append(blocks, kind)
            /\ entry' = Append(entry, locals[Len(locals)])
       ELSE /\ pc' = "done"
            /\ UNCHANGED <<blocks, entry>>
    /\ UNCHANGED <<file_query, stanza_index, full_match>>

\* Stanza::check up to its loop over the statements.
StanzaCheck ==
    /\ pc = "file" /\ error = NoError /\ stanza_index < NumStanzas
    /\ locals' = <<VariableMapNew>>
    /\ blocks' = <<"stanza">>
    /\ entry' = <<VariableMapNew>>
    /\ full_match' = full_match \cup {stanza_index}
    /\ pc' = "stmts"
    /\ stmt' = NoStmt
    /\ annotated' = <<>>
    /\ UNCHANGED <<file_query, stanza_index, error, nodes>>

\* Stanza::check returns Ok: File::check goes on with the next stanza.
StanzaReturn ==
    /\ pc = "stmts" /\ error = NoError /\ Len(locals) = 1
    /\ locals' = <<>>
    /\ blocks' = <<>>
    /\ entry' = <<>>
    /\ stanza_index' = stanza_index + 1
    /\ pc' = "file"
    /\ stmt' = NoStmt
    /\ annotated' = <<>>
    /\ UNCHANGED <<file_query, full_match, error, nodes>>

\* File::check returns Ok.
FileReturn ==
    /\ pc = "file" /\ error = NoError /\ stanza_index = NumStanzas
    /\ pc' = "done"
    /\ UNCHANGED <<file_query, stanza_index, full_match, locals, blocks, entry,
                   error, nodes, stmt, annotated>>

DeclareImmutable ==
    \E t \in Targets :
        LET s == Stmt("DeclareImmutable", t[1], t[2], NoExpr, NoExpr, <<>>, <<>>)
        IN  AtStatement /\ Returned(s, DeclareImmutableCheck(s, Ctx, Here))

DeclareMutable ==
    \E t \in Targets :
        LET s == Stmt("DeclareMutable", t[1], t[2], NoExpr, NoExpr, <<>>, <<>>)
        IN  AtStatement /\ Returned(s, DeclareMutableCheck(s, Ctx, Here))

Assign ==
    \E t \in Targets :
        LET s == Stmt("Assign", t[1], t[2], NoExpr, NoExpr, <<>>, <<>>)
        IN  AtStatement /\ Returned(s, AssignCheck(s, Ctx, Here))

CreateGraphNode ==
    \E v \in UnscopedVariables \cup ScopedVariables :
        LET s == Stmt("CreateGraphNode", v, NoExpr, NoExpr, NoExpr, <<>>, <<>>)
        IN  AtStatement /\ Returned(s, CreateGraphNodeCheck(s, Ctx, Here))

AddGraphNodeAttribute ==
    \E node \in Elems, attributes \in SeqUpTo(Elems, MaxElems) :
        LET s == Stmt("AddGraphNodeAttribute", NoExpr, NoExpr, node, NoExpr,
                      attributes, <<>>)
        IN  AtStatement /\ Returned(s, AddGraphNodeAttributeCheck(s, Ctx, Here))

CreateEdge ==
    \E source \in Elems, sink \in Elems :
        LET s == Stmt("CreateEdge", NoExpr, NoExpr, source, sink, <<>>, <<>>)
        IN  AtStatement /\ Returned(s, CreateEdgeCheck(s, Ctx, Here))

AddEdgeAttribute ==
    \E source \in Elems, sink \in {Unscoped("n")},
       attributes \in SeqUpTo(Captures, MaxElems) :
        LET s == Stmt("AddEdgeAttribute", NoExpr, NoExpr, source, sink,
                      attributes, <<>>)
        IN  AtStatement /\ Returned(s, AddEdgeAttributeCheck(s, Ctx, Here))

PrintStatement ==
    \E values \in SeqUpTo(Printed, MaxElems) \ {<<>>} :
        LET s == Stmt("Print", NoExpr, NoExpr, NoExpr, NoExpr, values, <<>>)
        IN  AtStatement /\ Returned(s, PrintCheck(s, Ctx, Here))

\* Scan::check: the value, then the loop over the arms (pc = "scan").
Scan ==
    \E value \in ScanExprs :
        LET s == Stmt("Scan", NoExpr, value, NoExpr, NoExpr, <<>>, <<>>)
            r == ScanValueCheck(s, Ctx, Here)
        IN  /\ AtStatement
            /\ stmt' = s
            /\ nodes' = nodes + 1
            /\ annotated' = r.captures
            /\ error' = r.error
            /\ pc' = IF r.error = NoError THEN "scan" ELSE "done"
            /\ UNCHANGED <<file_query, stanza_index, full_match, locals, blocks,
                           entry>>

\* The next arm of the scan: a child scope for its statements.
ScanArm ==
    /\ pc = "scan" /\ error = NoError /\ nodes < MaxNodes /\ Depth < MaxDepth
    /\ LET s == Stmt("ScanArm", NoExpr, NoExpr, NoExpr, NoExpr, <<>>, <<>>)
       IN  Entered(s, Bound(NoError, VariableMapNewChild(locals), <<>>), "scan")

\* The scan has no further arm: Scan::check returns Ok.
ScanReturn ==
    /\ pc = "scan" /\ error = NoError
    /\ pc' = "stmts"
    /\ stmt' = NoStmt
    /\ annotated' = <<>>
    /\ UNCHANGED <<file_query, stanza_index, full_match, locals, blocks, entry,
                   error, nodes>>

\* The first arm of an if statement, or its next arm (pc = "if").
IfArm ==
    \E conditions \in SeqUpTo(Conditions, MaxElems) :
        LET s == Stmt("IfArm", NoExpr, NoExpr, NoExpr, NoExpr, <<>>, conditions)
        IN  /\ pc \in {"stmts", "if"} /\ error = NoError
            /\ nodes < MaxNodes /\ Depth < MaxDepth
            /\ Entered(s, IfArmCheck(s, Ctx, Here), "if")

\* The if has no further arm: If::check returns Ok.
IfReturn ==
    /\ pc = "if" /\ error = NoError
    /\ pc' = "stmts"
    /\ stmt' = NoStmt
    /\ annotated' = <<>>
    /\ UNCHANGED <<file_query, stanza_index, full_match, locals, blocks, entry,
                   error, nodes>>

ForIn ==
    \E v \in VarNames, c \in CaptureNames :
        LET s == Stmt("ForIn", Unscoped(v), Capture(c), NoExpr, NoExpr, <<>>, <<>>)
        IN  /\ AtStatement /\ Depth < MaxDepth
            /\ Entered(s, ForInCheck(s, Ctx, Here), "for")

\* The statements of an arm or of a loop body are done: its scope is
\* dropped, and the walk is back in the statement that opened it.
BlockReturn ==
    /\ pc = "stmts" /\ error = NoError /\ Len(locals) > 1
    /\ locals' = SubSeq(locals, 1, Len(locals) - 1)
    /\ blocks' = SubSeq(blocks, 1, Len(blocks) - 1)
    /\ entry' = SubSeq(entry, 1, Len(entry) - 1)
    /\ pc' = CASE blocks[Len(blocks)] = "if" -> "if"
               [] blocks[Len(blocks)] = "scan" -> "scan"
               [] OTHER -> "stmts"
    /\ stmt' = NoStmt
    /\ annotated' = <<>>
    /\ UNCHANGED <<file_query, stanza_index, full_match, error, nodes>>

Next ==
    \/ StanzaCheck
    \/ StanzaReturn
    \/ FileReturn
    \/ DeclareImmutable
    \/ DeclareMutable
    \/ Assign
    \/ CreateGraphNode
    \/ AddGraphNodeAttribute
    \/ CreateEdge
    \/ AddEdgeAttribute
    \/ PrintStatement
    \/ Scan
    \/ ScanArm
    \/ ScanReturn
    \/ IfArm
    \/ IfReturn
    \/ ForIn
    \/ BlockReturn

Spec == Init /\ [][Next]_vars

\* ------------------------------------------------------------------------
\* What the properties below speak of

Top == locals[Len(locals)]
Declarations == {"DeclareImmutable", "DeclareMutable", "CreateGraphNode"}

\* The last step ran the handler of a statement (or arm), which is stmt'.
Handled == nodes' = nodes + 1

\* The stanza's own pattern contains capture c.
InPattern(c) == file_query[stanza_index][c] # Zero

\* The innermost scope of ls that declares v, 0 when no scope does.
Nearest(ls, v) ==
    IF \A i \in 1 .. Len(ls) : ~ls[i][v].declared THEN 0
    ELSE CHOOSE i \in 1 .. Len(ls) :
             ls[i][v].declared /\ \A j \in (i + 1) .. Len(ls) : ~ls[j][v].declared

\* What a read of v yields under ls.
Read(ls, v) == IF Nearest(ls, v) = 0 THEN One ELSE ls[Nearest(ls, v)][v].quantifier

\* The capture references of a statement, in the order the handler reaches
\* them, each with its path inside the statement.
Ref(name, path) == [name |-> name, path |-> path]
RECURSIVE RefsOf(_, _)
RECURSIVE RefsOfAll(_, _, _)
RefsOf(e, path) ==
    IF e.kind = "Capture" THEN <<Ref(e.name, path)>> ELSE RefsOfAll(e.elems, path, 1)
RefsOfAll(es, path, i) ==
    IF i > Len(es) THEN <<>>
    ELSE RefsOf(es[i], Append(path, i)) \o RefsOfAll(es, path, i + 1)
GuardsOf(conditions) ==
    [k \in 1 .. Len(conditions) |->
        Expr("Condition", "",
             [i \in 1 .. Len(conditions[k].captures) |->
                 Capture(conditions[k].captures[i])])]
StmtRefs(s) ==
    CASE s.kind \in {"DeclareImmutable", "DeclareMutable", "Assign"} ->
             RefsOf(s.value, <<2>>) \o RefsOf(s.variable, <<1>>)
      [] s.kind = "CreateGraphNode" -> RefsOf(s.variable, <<1>>)
      [] s.kind = "AddGraphNodeAttribute" -> RefsOfAll(<<s.source>> \o s.values, <<>>, 1)
      [] s.kind = "CreateEdge" -> RefsOfAll(<<s.source, s.sink>>, <<>>, 1)
      [] s.kind = "AddEdgeAttribute" ->
             RefsOfAll(<<s.source, s.sink>> \o s.values, <<>>, 1)
      [] s.kind = "Print" -> RefsOfAll(s.values, <<>>, 1)
      [] s.kind = "Scan" -> RefsOfAll(<<s.value>>, <<>>, 1)
      [] s.kind = "IfArm" -> RefsOfAll(GuardsOf(s.conditions), <<>>, 1)
      [] s.kind = "ForIn" -> RefsOf(s.value, <<2>>)
      [] OTHER -> <<>>

\* Every capture that expression e refers to is in the stanza's pattern.
Resolves(e) ==
    \A i \in 1 .. Len(RefsOf(e, <<>>)) : InPattern(RefsOf(e, <<>>)[i].name)

\* ------------------------------------------------------------------------
\* C1: a for-in over a capture of the stanza's pattern gets past the source
\* check exactly when the capture's quantifier is ZeroOrMore or OneOrMore;
\* for One and ZeroOrOne it fails with ExpectedListValue at the location of
\* the for-in statement itself, and no loop scope is opened.
C1_ForInSource ==
    (stmt.kind = "ForIn" /\ InPattern(stmt.value.name)) =>
        LET q == file_query[stanza_index][stmt.value.name]
            passed == /\ error = NoError
                      /\ pc = "stmts"
                      /\ blocks[Len(blocks)] = "for"
        IN  /\ passed <=> q \in {ZeroOrMore, OneOrMore}
            /\ q \in {One, ZeroOrOne} =>
                   /\ error = ExpectedListValue(Location(nodes, <<>>))
                   /\ error.location # Location(nodes, <<2>>)
                   /\ pc = "done"

C1_Witness ==
    /\ stmt.kind = "ForIn"
    /\ file_query[stanza_index][stmt.value.name] = ZeroOrOne
    /\ error.kind = "ExpectedListValue"

\* C2: a conditional guard over captures of the stanza's pattern, in the
\* none and in the some form, succeeds exactly when every listed capture is
\* ZeroOrOne; otherwise it fails with ExpectedOptionalValue at the first
\* listed capture that is One, ZeroOrMore or OneOrMore, and the arm's scope
\* is not opened.
C2_Guard ==
    stmt.kind = "IfArm" =>
        LET refs == StmtRefs(stmt)
            bad == {i \in 1 .. Len(refs) :
                       file_query[stanza_index][refs[i].name] # ZeroOrOne}
            first == CHOOSE i \in bad : \A j \in bad : i <= j
            passed == /\ error = NoError
                      /\ pc = "stmts"
                      /\ blocks[Len(blocks)] = "if"
        IN  /\ passed <=> bad = {}
            /\ (bad # {} /\ InPattern(refs[first].name)) =>
                   /\ error = ExpectedOptionalValue(Location(nodes, refs[first].path))
                   /\ pc = "done"

C2_Witness ==
    /\ stmt.kind = "IfArm"
    /\ stmt.conditions = <<Condition("None", <<"child", "x">>)>>
    /\ file_query[stanza_index]["child"] = ZeroOrOne
    /\ file_query[stanza_index]["x"] = OneOrMore
    /\ error = ExpectedOptionalValue(Location(nodes, <<1, 2>>))

\* C3: a capture reference, wherever it stands in the stanza's body,
\* checks successfully exactly when the stanza's own pattern contains its
\* name, and is then annotated with the quantifier the file query has for it
\* in this stanza; a name the pattern lacks fails with UndefinedSyntaxCapture
\* naming it, also when another stanza's pattern contains it.
C3_CaptureResolution ==
    LET refs == StmtRefs(stmt)
    IN  /\ \A i \in 1 .. Len(annotated) :
               /\ InPattern(annotated[i].name)
               /\ annotated[i].quantifier = file_query[stanza_index][annotated[i].name]
        /\ error.kind = "UndefinedSyntaxCapture" =>
               /\ ~InPattern(error.name)
               /\ \E i \in 1 .. Len(refs) :
                      /\ refs[i].name = error.name
                      /\ Location(nodes, refs[i].path) = error.location
        /\ (error = NoError /\ stmt # NoStmt) =>
               \A i \in 1 .. Len(refs) :
                   /\ InPattern(refs[i].name)
                   /\ \E j \in 1 .. Len(annotated) :
                          /\ annotated[j].name = refs[i].name
                          /\ annotated[j].location = Location(nodes, refs[i].path)
        /\ (\A i \in 1 .. Len(refs) : InPattern(refs[i].name)) =>
               error.kind # "UndefinedSyntaxCapture"

C3_Witness ==
    /\ error.kind = "UndefinedSyntaxCapture"
    /\ \E s \in Stanzas : s # stanza_index /\ file_query[s][error.name] # Zero
    /\ Len(error.location.path) = 2
    /\ Len(locals) > 1

\* C4: a declaration (let, var or node) of an unscoped name that the current
\* scope already declares fails with a Variable error carrying the name,
\* whatever the two declarations' kinds and mutability are, and leaves every
\* binding as it was.
C4_Redeclaration ==
    [][(/\ Handled
        /\ stmt'.kind \in Declarations
        /\ stmt'.variable.kind = "UnscopedVariable"
        /\ Resolves(stmt'.value)
        /\ Top[stmt'.variable.name].declared)
       => (/\ error'.kind = "Variable"
           /\ error'.name = stmt'.variable.name
           /\ locals' = locals)]_vars

C4_Witness ==
    /\ stmt.kind = "DeclareImmutable"
    /\ stmt.variable = Unscoped("x")
    /\ error.kind = "Variable"
    /\ error.name = "x"
    /\ Top["x"].mutable
    /\ Top["x"].quantifier = ZeroOrMore

\* C5: declarations made in a nested block do not leak.  A block starts
\* with a scope of its own that declares nothing (but the loop variable of a
\* for-in), so a name bound by an enclosing scope or by a sibling arm can be
\* declared in it; a declaration changes no enclosing scope; and when the
\* block returns, the enclosing scope declares the names it declared on
\* entry, with the same mutability.
C5_NoLeak ==
    [][/\ (Len(locals') = Len(locals) + 1 /\ Len(locals) > 0) =>
              /\ SubSeq(locals', 1, Len(locals)) = locals
              /\ \A v \in VarNames :
                     locals'[Len(locals')][v].declared =>
                         (stmt'.kind = "ForIn" /\ stmt'.variable.name = v)
       /\ (Handled /\ stmt'.kind \in Declarations \cup {"ForIn"}) =>
              \A i \in 1 .. (Len(locals') - 1) : locals'[i] = locals[i]
       /\ (/\ Handled
           /\ stmt'.kind \in Declarations
           /\ stmt'.variable.kind = "UnscopedVariable"
           /\ Resolves(stmt'.value)
           /\ ~Top[stmt'.variable.name].declared)
          => (/\ error' = NoError
              /\ locals'[Len(locals')][stmt'.variable.name].declared)
       /\ (Len(locals') = Len(locals) - 1 /\ Len(locals') > 0) =>
              /\ locals' = SubSeq(locals, 1, Len(locals'))
              /\ \A v \in VarNames :
                     /\ locals'[Len(locals')][v].declared = entry[Len(entry)][v].declared
                     /\ locals'[Len(locals')][v].mutable = entry[Len(entry)][v].mutable
      ]_vars

C5_Witness ==
    /\ Len(locals) = 2
    /\ stmt.kind = "DeclareMutable"
    /\ stmt.variable = Unscoped("x")
    /\ error = NoError
    /\ locals[2]["x"].mutable
    /\ locals[1]["x"].declared
    /\ ~locals[1]["x"].mutable
    /\ locals[1]["x"].quantifier # locals[2]["x"].quantifier

\* The quantifier of a declared or assigned value e under the scopes ls.
ValueOf(e, ls) ==
    CASE e.kind = "Capture" -> file_query[stanza_index][e.name]
      [] e.kind = "UnscopedVariable" -> Read(ls, e.name)
      [] e.kind \in {"List", "Set"} -> ZeroOrMore
      [] OTHER -> One

\* C6: an assignment to an unscoped name succeeds exactly when the nearest
\* binding of the name exists and is mutable, and fails with a Variable
\* error otherwise, changing nothing.  On success that binding, and nothing
\* else, changes: its quantifier becomes the assigned value's, which is what
\* a read of the name then yields, in this scope and in the scope of a block
\* opened later.
C6_Assignment ==
    [][/\ (/\ Handled
           /\ stmt'.kind = "Assign"
           /\ stmt'.variable.kind = "UnscopedVariable"
           /\ Resolves(stmt'.value))
          => LET v == stmt'.variable.name
                 i == Nearest(locals, v)
                 q == ValueOf(stmt'.value, locals)
             IN  /\ error' = NoError <=> (i # 0 /\ locals[i][v].mutable)
                 /\ error' # NoError =>
                        /\ error'.kind = "Variable"
                        /\ error'.name = v
                        /\ locals' = locals
                 /\ error' = NoError =>
                        /\ locals' = [locals EXCEPT ![i][v].quantifier = q]
                        /\ Read(locals', v) = q
       /\ (Len(locals') = Len(locals) + 1 /\ Len(locals) > 0) =>
              \A v \in VarNames :
                  \/ locals'[Len(locals')][v].declared
                  \/ Read(locals', v) = Read(locals, v)
      ]_vars

C6_Witness ==
    /\ Len(locals) = 2
    /\ stmt.kind = "Assign"
    /\ stmt.variable = Unscoped("x")
    /\ stmt.value = Capture("child")
    /\ error = NoError
    /\ ~locals[2]["x"].declared
    /\ locals[1]["x"].quantifier = OneOrMore

\* C7: a read of an unscoped variable never fails: it yields the quantifier
\* of the nearest binding, and One when no scope binds the name, and it
\* adds no binding.
C7_Read ==
    [][/\ (/\ Handled
           /\ stmt'.kind \in {"DeclareImmutable", "DeclareMutable"}
           /\ stmt'.variable.kind = "UnscopedVariable"
           /\ stmt'.value.kind = "UnscopedVariable"
           /\ ~Top[stmt'.variable.name].declared)
          => LET i == Nearest(locals, stmt'.value.name)
                 q == IF i = 0 THEN One ELSE locals[i][stmt'.value.name].quantifier
             IN  /\ error' = NoError
                 /\ locals' = [locals EXCEPT ![Len(locals)][stmt'.variable.name] =
                                  Binding(q, stmt'.kind = "DeclareMutable")]
       /\ (/\ Handled
           /\ stmt'.kind = "CreateEdge"
           /\ stmt'.source.kind = "UnscopedVariable"
           /\ stmt'.sink.kind = "UnscopedVariable")
          => (error' = NoError /\ locals' = locals)
      ]_vars

C7_Witness ==
    /\ stmt.kind = "DeclareImmutable"
    /\ stmt.variable = Unscoped("n")
    /\ stmt.value = Unscoped("x")
    /\ error = NoError
    /\ Nearest(locals, "x") = 0
    /\ Top["n"] = Binding(One, FALSE)

\* What the last statement left behind: the captures annotated are the
\* first ones in the handler's order, the error is that of the check right
\* after them, and only the stanzas reached so far are annotated.
C8_Order ==
    LET refs == StmtRefs(stmt)
        k == Len(annotated)
    IN  /\ k <= Len(refs)
        /\ \A i \in 1 .. k :
               /\ annotated[i].name = refs[i].name
               /\ annotated[i].location = Location(nodes, refs[i].path)
        /\ error.kind = "UndefinedSyntaxCapture" =>
               /\ k < Len(refs)
               /\ error = UndefinedSyntaxCapture(refs[k + 1].name,
                                                 Location(nodes, refs[k + 1].path))
        /\ error.kind = "Variable" => k = Len(refs)
        /\ error.kind = "ExpectedOptionalValue" =>
               (k >= 1 /\ error.location = annotated[k].location)
        /\ error.kind = "ExpectedListValue" =>
               (k = 1 /\ error.location = Location(nodes, <<>>))
        /\ error = NoError => k = Len(refs)
        /\ error # NoError => pc = "done"
        /\ full_match = {s \in Stanzas : s < stanza_index}
                            \cup (IF locals # <<>> THEN {stanza_index} ELSE {})

\* C8: the check is fail-fast in traversal order.  Stanzas and statements
\* are taken in order; inside a statement the captures are resolved in the
\* handler's order (a value before the variable it is bound to, an arm's
\* guards before the arm's scope is opened); the error returned is the one
\* of the first check that fails, nothing after it is annotated or bound,
\* and after an error no step is taken.
C8_FailFast ==
    /\ []C8_Order
    /\ [][/\ error = NoError
          /\ nodes' \in {nodes, nodes + 1}
          /\ stanza_index' \in {stanza_index, stanza_index + 1}
          /\ error' # NoError =>
                 /\ Handled
                 /\ locals' = locals
                 /\ blocks' = blocks
                 /\ stanza_index' = stanza_index
                 /\ full_match' = full_match
         ]_vars

C8_Witness ==
    /\ stmt.kind = "AddEdgeAttribute"
    /\ stmt.source = Capture("child")
    /\ stmt.values = <<Capture("x")>>
    /\ error = UndefinedSyntaxCapture("x", Location(nodes, <<3>>))
    /\ Len(annotated) = 1
    /\ stanza_index = 0
    /\ full_match = {0}
    /\ nodes = 2

\* C9 (as amended): a declaration records the quantifier of the capture it
\* is given, neither narrower nor wider.  The source of a for-in and the
\* guards of a conditional are captures, resolved against the stanza's
\* pattern and not against the variables: with @child compiled ZeroOrMore,
\* `for n in @child` is accepted and binds n in the loop's scope only, and
\* `if none @child` fails with ExpectedOptionalValue, whatever the variables
\* are bound to.
C9_CaptureCardinality ==
    [][/\ (/\ Handled
           /\ stmt'.kind \in {"DeclareImmutable", "DeclareMutable"}
           /\ stmt'.variable.kind = "UnscopedVariable"
           /\ stmt'.value.kind = "Capture"
           /\ InPattern(stmt'.value.name)
           /\ ~Top[stmt'.variable.name].declared)
          => (/\ error' = NoError
              /\ locals' = [locals EXCEPT ![Len(locals)][stmt'.variable.name] =
                               Binding(file_query[stanza_index][stmt'.value.name],
                                       stmt'.kind = "DeclareMutable")])
       /\ (/\ Handled
           /\ stmt'.kind = "ForIn"
           /\ file_query[stanza_index][stmt'.value.name] = ZeroOrMore)
          => (/\ error' = NoError
              /\ SubSeq(locals', 1, Len(locals)) = locals
              /\ Len(locals') = Len(locals) + 1
              /\ \A v \in VarNames :
                     locals'[Len(locals')][v].declared <=> v = stmt'.variable.name)
       /\ (/\ Handled
           /\ stmt'.kind = "IfArm"
           /\ Len(stmt'.conditions) > 0
           /\ file_query[stanza_index][stmt'.conditions[1].captures[1]] = ZeroOrMore)
          => (/\ error' = ExpectedOptionalValue(Location(nodes', <<1, 1>>))
              /\ locals' = locals)
      ]_vars

C9_Witness ==
    /\ stmt.kind = "DeclareImmutable"
    /\ stmt.variable = Unscoped("x")
    /\ stmt.value = Capture("child")
    /\ file_query[stanza_index]["child"] = ZeroOrMore
    /\ error = NoError
    /\ Top["x"] = Binding(ZeroOrMore, FALSE)

\* C9 as stated: once x is bound to a ZeroOrMore value, `for n in x` is
\* accepted and `if none x` fails with ExpectedOptionalValue.
C9_AsStated ==
    LET outer == IF stmt.kind = "ForIn" /\ error = NoError
                 THEN SubSeq(locals, 1, Len(locals) - 1) ELSE locals
        listed == Nearest(outer, "x") # 0 /\ Read(outer, "x") = ZeroOrMore
    IN  /\ (stmt.kind = "ForIn" /\ stmt.value.name = "x" /\ listed) =>
               error = NoError
        /\ (/\ stmt.kind = "IfArm"
            /\ stmt.conditions = <<Condition("None", <<"x">>)>>
            /\ listed)
           => error.kind = "ExpectedOptionalValue"

\* C10: a for-in that passes its source check binds the loop variable, in
\* the loop's own scope, with quantifier One.
C10_LoopVariableOne ==
    (stmt.kind = "ForIn" /\ error = NoError) =>
        /\ Top[stmt.variable.name].declared
        /\ Top[stmt.variable.name].quantifier = One

====
